---------------------------- MODULE Spec2Model ----------------------------
(***************************************************************************)
(* A model of the shell fragments of src/src/lab.c: prompt lookup,        *)
(* directory change, the line tokenizer, whitespace trimming, built-in     *)
(* dispatch, terminal set-up and tear-down, and launch-option parsing.     *)
(*                                                                         *)
(* C strings are sequences of one-character strings without the            *)
(* terminating NUL; a buffer that holds a string of length n has n+1       *)
(* cells, the last one being NUL.                                          *)
(***************************************************************************)
EXTENDS Integers, Sequences, FiniteSets, TLC

VARIABLES
    call,       \* the arguments of the library call under examination
    res,        \* what that call returned and did (NoRes before it ran)
    pc,         \* the shell process: "start", "running" or "exited"
    status,     \* the exit status of the process once pc = "exited"
    env,        \* the process environment: variable name -> value or Unset
    heap,       \* malloc'ed blocks: address -> content or Free
    sh,         \* struct shell
    tty,        \* the terminal on STDIN_FILENO
    tcset,      \* the tcsetattr calls made so far (their termios argument)
    cwd         \* the working directory of the process

vars == <<call, res, pc, status, env, heap, sh, tty, tcset, cwd>>

(***************************************************************************)
(* Bounds of the model                                                     *)
(***************************************************************************)
ArgMax  == 4     \* the value sysconf(_SC_ARG_MAX) returns, scaled down
MaxLen  == 9     \* the longest command line given to cmd_parse
MaxTrim == 5     \* the longest buffer given to trim_white
MaxArgc == 3     \* the most launch arguments after the program name
MaxHeap == 2     \* the number of blocks malloc can hand out

NULL  == "NULL"
NoRes == [op |-> "none"]

\* The sequences over S of length 0..n
SeqsUpTo(S, n) == UNION {[1..k -> S] : k \in 0..n}

(***************************************************************************)
(* cmd_parse                                                               *)
(***************************************************************************)
ParseChars == {" ", "a", ">"}
ParseLines == SeqsUpTo(ParseChars, MaxLen)

Uninit   == [k |-> "uninit", s |-> <<>>]       \* a cell malloc left as it was
NullPtr  == [k |-> "null",   s |-> <<>>]
StrPtr(s) == [k |-> "str",   s |-> s]          \* a pointer to a copy of s

\* A scan that passes over one delimiter only, as a split on single spaces
\* would
SkipDelimsOnce(s, i) == IF i <= Len(s) /\ s[i] = " " THEN i + 1 ELSE i

\* strtok's scan over delimiters: the first index >= i of s that holds no
\* space, or Len(s) + 1
RECURSIVE SkipDelims(_, _)
SkipDelims(s, i) ==
    IF i <= Len(s) /\ s[i] = " " THEN SkipDelims(s, i + 1) ELSE i

\* strtok's scan over a token: the first index >= i of s that holds a space,
\* or Len(s) + 1
RECURSIVE TokenEnd(_, _)
TokenEnd(s, i) ==
    IF i <= Len(s) /\ s[i] # " " THEN TokenEnd(s, i + 1) ELSE i

\* strtok(input, " ") continued from its saved position i: the token found
\* (NULL when only delimiters are left) and the position saved for the next
\* call, which is just past the delimiter that strtok overwrote with NUL
strtok(s, i) ==
    LET b == SkipDelims(s, i)
        e == TokenEnd(s, b)
    IN  IF b > Len(s)
        THEN [token |-> NULL, tok |-> <<>>, next |-> b]
        ELSE [token |-> "tok", tok |-> SubSeq(s, b, e - 1),
              next |-> IF e <= Len(s) THEN e + 1 ELSE e]

\* strdup(s) as the n-th allocation of the call, when allocation number
\* failAt (0: none) is the one that fails
strdup(s, n, failAt) == IF n = failAt THEN NullPtr ELSE StrPtr(s)

\* args[position++] = strdup(token) for one token: the array after the store
\* and the index written when it lies outside the array
StoreToken(args, arg_max, position, p) ==
    IF position \in 0..(arg_max - 1)
    THEN [args |-> [args EXCEPT ![position] = p], oob |-> {}]
    ELSE [args |-> args, oob |-> {position}]

\* The while loop of cmd_parse from strtok position i on: st carries args,
\* position, the out-of-bounds indices written and the token copies that
\* failed to allocate
RECURSIVE ParseLoop(_, _, _, _, _)
ParseLoop(input, i, st, arg_max, failAt) ==
    LET t == strtok(input, i) IN
    IF t.token = NULL THEN st
    ELSE LET p  == strdup(t.tok, 3 + st.position, failAt)
             w  == StoreToken(st.args, arg_max, st.position, p)
         IN  ParseLoop(input, t.next,
                 [args     |-> w.args,
                  position |-> st.position + 1,
                  oob      |-> st.oob \cup w.oob,
                  failed   |-> st.failed \cup
                               (IF p = NullPtr THEN {st.position} ELSE {})],
                 arg_max, failAt)

\* The branch of cmd_parse taken once the loop has ended
ParseFinish(st, arg_max) ==
    IF st.position >= arg_max - 1
    THEN [ret |-> NULL, args |-> st.args, position |-> st.position,
          stderr |-> <<"Too many arguments (limit reached)">>,
          freedTokens |-> 0..(st.position - 1),
          freedArgs |-> TRUE, freedInput |-> TRUE]
    ELSE IF st.position = 0
    THEN [ret |-> NULL, args |-> st.args, position |-> 0,
          stderr |-> <<"cmd_parse: No args found.">>,
          freedTokens |-> {}, freedArgs |-> TRUE, freedInput |-> TRUE]
    ELSE [ret |-> "args",
          args |-> [st.args EXCEPT ![st.position] = NullPtr],
          position |-> st.position,
          stderr |-> <<>>,
          freedTokens |-> {}, freedArgs |-> FALSE, freedInput |-> TRUE]

\* cmd_parse(line) with sysconf(_SC_ARG_MAX) = arg_max, allocation number
\* failAt failing (1: the copy of the line, 2: the array, 3 + k: the copy of
\* token k), and ub the outcome of a store past the end of the array, which
\* is undefined behaviour: the process dies ("crash") or runs on with the
\* heap corrupted ("silent")
cmd_parse(line, arg_max, failAt, ub) ==
    LET base == [op |-> "cmd_parse", crashed |-> FALSE, oob |-> {},
                 failed |-> {}, position |-> 0,
                 args |-> [j \in 0..(arg_max - 1) |-> Uninit],
                 freedTokens |-> {}, freedArgs |-> FALSE,
                 freedInput |-> FALSE]
    IN
    IF line = NullPtr
    THEN base @@
         [ret |-> NULL, stderr |-> <<"cmd_parse: Received NULL input">>]
    ELSE IF failAt = 1
    THEN base @@ [ret |-> NULL,
                  stderr |-> <<"Memory allocation failed for input.">>]
    ELSE IF failAt = 2
    THEN [base EXCEPT !.freedInput = TRUE] @@
         [ret |-> NULL,
          stderr |-> <<"Memory allocation failed for arguments array.">>]
    ELSE LET st == ParseLoop(line.s, 1,
                       [args |-> base.args, position |-> 0, oob |-> {},
                        failed |-> {}],
                       arg_max, failAt)
             f  == ParseFinish(st, arg_max)
         IN  IF st.oob # {} /\ ub = "crash"
             THEN [base EXCEPT !.crashed = TRUE, !.oob = st.oob,
                               !.failed = st.failed,
                               !.position = st.position,
                               !.args = st.args] @@
                  [ret |-> NULL, stderr |-> <<>>]
             ELSE [op |-> "cmd_parse", crashed |-> FALSE, oob |-> st.oob,
                   failed |-> st.failed] @@ f


(***************************************************************************)
(* trim_white                                                              *)
(*                                                                         *)
(* A buffer is a sequence of cells; cell k + 1 is the char at offset k.    *)
(* NUL is the terminator and VT names the vertical tab.                    *)
(***************************************************************************)
NUL == "NUL"
VT  == "VT"

\* isspace in the C locale
isspace(c) == c \in {" ", "\t", "\n", VT, "\f", "\r"}

\* strlen of the string that starts at offset i of buf
RECURSIVE strlen(_, _)
strlen(buf, i) == IF buf[i + 1] = NUL THEN 0 ELSE 1 + strlen(buf, i + 1)

\* The string that starts at offset i of buf
CString(buf, i) == SubSeq(buf, i + 1, i + strlen(buf, i))

\* while (isspace(*start)) start++
RECURSIVE SkipLeading(_, _)
SkipLeading(buf, start) ==
    IF isspace(buf[start + 1]) THEN SkipLeading(buf, start + 1) ELSE start

\* while (end > start && isspace(*end)) end--
RECURSIVE BackTrailing(_, _, _)
BackTrailing(buf, start, end) ==
    IF end > start /\ isspace(buf[end + 1])
    THEN BackTrailing(buf, start, end - 1) ELSE end

\* A memmove that leaves the last of the n chars behind
memmove_short(buf, dst, src, n) ==
    [k \in 1..Len(buf) |->
        IF k - 1 \in dst..(dst + n - 2) THEN buf[k - dst + src] ELSE buf[k]]

\* memmove(buf + dst, buf + src, n): the n chars at src, as they were
\* before the call, now at dst
memmove(buf, dst, src, n) ==
    [k \in 1..Len(buf) |->
        IF k - 1 \in dst..(dst + n - 1) THEN buf[k - dst + src] ELSE buf[k]]

\* trim_white(line), line pointing at offset 0 of buf (or being NULL): the
\* pointer returned and the buffer afterwards
trim_white(line, buf) ==
    IF line = NULL
    THEN [op |-> "trim_white", ret |-> NULL, buf |-> buf]
    ELSE LET start == SkipLeading(buf, 0) IN
         IF buf[start + 1] = NUL
         THEN [op |-> "trim_white", ret |-> "line",
               buf |-> [buf EXCEPT ![1] = NUL]]
         ELSE LET end  == BackTrailing(buf, start,
                                       start + strlen(buf, start) - 1)
                  cut  == [buf EXCEPT ![end + 2] = NUL]
              IN  [op |-> "trim_white", ret |-> "line",
                   buf |-> IF start # 0
                           THEN memmove(cut, 0, start, end - start + 2)
                           ELSE cut]

(***************************************************************************)
(* parse_args                                                              *)
(*                                                                         *)
(* argv[0] is element 1 of the sequence argv; every argument is a sequence *)
(* of chars.                                                               *)
(***************************************************************************)
\* The next option char getopt(argc, argv, optstring) finds from element
\* optind on.  "--" ends the scan; an element that is "-" or does not start
\* with '-' is no option: the scan stops there when posix holds (getopt of
\* POSIX, or of glibc under POSIXLY_CORRECT) and passes over it otherwise
\* (glibc permutes it to the end).  A char that is not in optstring is
\* reported as '?' with optopt set to it; "EOF" stands for -1.
RECURSIVE getopt(_, _, _, _)
getopt(argv, optind, optstring, posix) ==
    IF optind > Len(argv)
    THEN [opt |-> "EOF", optopt |-> ""]
    ELSE LET a == argv[optind] IN
         IF a = <<"-", "-">>
         THEN [opt |-> "EOF", optopt |-> ""]
         ELSE IF Len(a) >= 2 /\ a[1] = "-"
         THEN IF a[2] \in optstring
              THEN [opt |-> a[2], optopt |-> ""]
              ELSE [opt |-> "?", optopt |-> a[2]]
         ELSE IF posix
         THEN [opt |-> "EOF", optopt |-> ""]
         ELSE getopt(argv, optind + 1, optstring, posix)

\* A switch without the case for '?'
OptionCaseNoUnknown(g) ==
    IF g.opt = "v"
    THEN [op |-> "parse_args", exited |-> TRUE, status |-> 0,
          stdout |-> <<"Shell Version">>, stderr |-> <<>>]
    ELSE [op |-> "parse_args", exited |-> FALSE, status |-> 0,
          stdout |-> <<>>, stderr |-> <<>>]

\* The switch of parse_args on what getopt returned
OptionCase(g) ==
    IF g.opt = "v"
    THEN [op |-> "parse_args", exited |-> TRUE, status |-> 0,
          stdout |-> <<"Shell Version">>, stderr |-> <<>>]
    ELSE IF g.opt = "?"
    THEN [op |-> "parse_args", exited |-> TRUE, status |-> 1,
          stdout |-> <<>>, stderr |-> <<"Unknown option">>]
    ELSE [op |-> "parse_args", exited |-> FALSE, status |-> 0,
          stdout |-> <<>>, stderr |-> <<>>]

\* parse_args(argc, argv).  With the option string "v" getopt returns 'v',
\* '?' or -1, and each of them leaves the while loop on its first pass.
parse_args(argv, posix) == OptionCase(getopt(argv, 2, {"v"}, posix))

(***************************************************************************)
(* Pointers, the heap and the environment                                  *)
(***************************************************************************)
EnvNames  == {"MY_PROMPT", "foo>"}
EnvValues == {"foo>", "bar>"}
Modes     == {"cooked", "raw"}
Dirs      == {"/", "/home/u"}                   \* the directories that exist
Paths     == Dirs \cup {"/thisdoesnotexist"}

Free        == [live |-> FALSE, s |-> ""]
NullAddr    == [k |-> "null",   a |-> 0, n |-> ""]
UninitAddr  == [k |-> "uninit", a |-> 0, n |-> ""]
HeapAddr(a) == [k |-> "heap",   a |-> a, n |-> ""]  \* block a of the heap
EnvAddr(n)  == [k |-> "env",    a |-> 0, n |-> n]   \* the value of n, in
                                                    \* the environment's
                                                    \* own storage

\* The string a pointer points at, in heap h and environment e
Deref(p, h, e) == IF p.k = "heap" THEN h[p.a].s ELSE e[p.n]

\* getenv(name) in environment e: a pointer into the environment, or NULL
getenv(e, name) ==
    IF name \in DOMAIN e /\ e[name] # NULL THEN EnvAddr(name) ELSE NullAddr

\* malloc: the block handed out in heap h, 0 when there is none to hand
\* out or the allocation fails for another reason (oom)
malloc(h, oom) ==
    IF oom \/ \A a \in DOMAIN h : h[a].live THEN 0
    ELSE CHOOSE a \in DOMAIN h : ~h[a].live /\ \A b \in 1..(a - 1) : h[b].live

\* strdup(s) on heap h: the pointer returned and the heap afterwards
strdupOn(h, s, oom) ==
    LET a == malloc(h, oom) IN
    IF a = 0 THEN [ptr |-> NullAddr, heap |-> h]
    ELSE [ptr |-> HeapAddr(a),
          heap |-> [h EXCEPT ![a] = [live |-> TRUE, s |-> s]]]

\* free(p) on heap h
free(h, p) == IF p.k = "heap" THEN [h EXCEPT ![p.a] = Free] ELSE h

(***************************************************************************)
(* get_prompt                                                              *)
(***************************************************************************)
\* A get_prompt that hands out getenv's pointer instead of a copy of it
get_prompt_nocopy(name, h, e, oom) ==
    IF name = NULL THEN strdupOn(h, "shell>", oom)
    ELSE LET prompt == getenv(e, name) IN
         IF prompt # NullAddr THEN [ptr |-> prompt, heap |-> h]
         ELSE strdupOn(h, "shell>", oom)

\* get_prompt(env) with env naming the variable `name` (NULL: env is NULL):
\* the pointer returned and the heap afterwards
get_prompt(name, h, e, oom) ==
    IF name = NULL THEN strdupOn(h, "shell>", oom)
    ELSE LET prompt == getenv(e, name) IN
         IF prompt # NullAddr THEN strdupOn(h, Deref(prompt, h, e), oom)
         ELSE strdupOn(h, "shell>", oom)

(***************************************************************************)
(* change_dir                                                              *)
(***************************************************************************)
\* chdir(path) from working directory d
chdir(d, path) ==
    IF path \in Dirs THEN [ret |-> 0, cwd |-> path]
    ELSE [ret |-> -1, cwd |-> d]

\* A change_dir that goes home whatever argument it is given
change_dir_home_only(dir, d, pw) ==
    IF ~pw.found \/ pw.pw_dir = NULL
    THEN [ret |-> -1, cwd |-> d, stderr |-> <<"getpwuid">>]
    ELSE chdir(d, pw.pw_dir) @@ [stderr |-> <<>>]

\* change_dir(dir) for a non-NULL dir whose element 1 is dir[0], with pw
\* what getpwuid(getuid()) returns
change_dir(dir, d, pw) ==
    IF Len(dir) < 2
    THEN IF ~pw.found \/ pw.pw_dir = NULL
         THEN [ret |-> -1, cwd |-> d, stderr |-> <<"getpwuid">>]
         ELSE chdir(d, pw.pw_dir) @@ [stderr |-> <<>>]
    ELSE chdir(d, dir[2]) @@ [stderr |-> <<>>]

(***************************************************************************)
(* sh_init, sh_destroy, do_builtin                                         *)
(***************************************************************************)
NoShell   == [shell_terminal |-> "uninit", shell_is_interactive |-> FALSE,
              shell_pgid |-> "uninit", shell_tmodes |-> "uninit",
              prompt |-> UninitAddr]

\* sh_init(sh) on terminal t, with fail the system call that fails ("none",
\* "setpgid", "tcsetpgrp" or "tcgetattr"): the struct, the heap, and whether
\* the process has exited.  The signal dispositions and using_history() act
\* on nothing the model keeps and are left out.
sh_init(s, t, h, e, fail, oom) ==
    LET s1 == [s EXCEPT !.shell_terminal = "STDIN_FILENO",
                        !.shell_is_interactive = t.isatty]
        s2 == [s1 EXCEPT !.shell_pgid = "pid"]
        s3 == [s2 EXCEPT !.shell_tmodes = t.modes]
        mp == getenv(e, "MY_PROMPT")
        gp(sx) == LET g == get_prompt(IF mp = NullAddr THEN NULL
                                      ELSE Deref(mp, h, e), h, e, oom)
                  IN [sh |-> [sx EXCEPT !.prompt = g.ptr], heap |-> g.heap,
                      exited |-> FALSE, status |-> 0, stderr |-> <<>>]
        die(sx, msg) == [sh |-> sx, heap |-> h, exited |-> TRUE,
                         status |-> 1, stderr |-> <<msg>>]
    IN  IF ~s1.shell_is_interactive THEN gp(s1)
        ELSE IF fail = "setpgid"
        THEN die(s2, "Couldn't put the shell in its own process group")
        ELSE IF fail = "tcsetpgrp"
        THEN die(s2, "Failed to take control of the terminal")
        ELSE IF fail = "tcgetattr"
        THEN die(s2, "Failed to get terminal attributes")
        ELSE gp(s3)

\* An sh_destroy that restores the terminal modes whether or not the shell
\* is interactive
sh_destroy_always(s, t, h, log, tcok) ==
    [heap  |-> IF s.prompt # NullAddr THEN free(h, s.prompt) ELSE h,
     tty   |-> IF tcok THEN [t EXCEPT !.modes = s.shell_tmodes] ELSE t,
     tcset |-> Append(log, s.shell_tmodes),
     stderr |-> IF tcok THEN <<>>
                ELSE <<"Failed to restore terminal settings">>]

\* sh_destroy(sh): the heap, the terminal and the tcsetattr calls
\* afterwards; tcok tells whether tcsetattr succeeds.  clear_history() acts
\* on nothing the model keeps.
sh_destroy(s, t, h, log, tcok) ==
    LET h1 == IF s.prompt # NullAddr THEN free(h, s.prompt) ELSE h IN
    IF s.shell_is_interactive
    THEN [heap  |-> h1,
          tty   |-> IF tcok THEN [t EXCEPT !.modes = s.shell_tmodes] ELSE t,
          tcset |-> Append(log, s.shell_tmodes),
          stderr |-> IF tcok THEN <<>>
                     ELSE <<"Failed to restore terminal settings">>]
    ELSE [heap |-> h1, tty |-> t, tcset |-> log, stderr |-> <<>>]

\* do_builtin(sh, argv): argvNull tells that argv is NULL, and otherwise
\* element 1 of argv is argv[0] (an empty argv has argv[0] = NULL); hist is
\* what history_list() returns.  The result says whether the process exited
\* and what do_builtin returned when it did not.  The cmd_free(argv) of the
\* first branch frees an array the model does not keep on its heap.
do_builtin(s, argvNull, argv, t, h, log, d, pw, hist, tcok) ==
    LET same == [heap |-> h, tty |-> t, tcset |-> log, cwd |-> d,
                 exited |-> FALSE, status |-> 0, stdout |-> <<>>]
    IN
    IF argvNull \/ Len(argv) = 0
    THEN same @@ [ret |-> FALSE]
    ELSE IF argv[1] = "exit"
    THEN LET x == sh_destroy(s, t, h, log, tcok) IN
         [heap |-> x.heap, tty |-> x.tty, tcset |-> x.tcset, cwd |-> d,
          exited |-> TRUE, status |-> 0,
          stdout |-> <<"Exiting shell normally.">>, ret |-> FALSE]
    ELSE IF argv[1] = "cd"
    THEN LET c == change_dir(argv, d, pw) IN
         [same EXCEPT !.cwd = c.cwd] @@ [ret |-> (c.ret = 0)]
    ELSE IF argv[1] = "history"
    THEN [same EXCEPT !.stdout = IF hist # <<>> THEN hist
                                 ELSE <<"No command history available.">>]
         @@ [ret |-> TRUE]
    ELSE same @@ [ret |-> FALSE]

(***************************************************************************)
(* The state of the shell process before main has done anything            *)
(***************************************************************************)
\* The shell part of the state while a library function is examined alone
IdleShell ==
    /\ pc = "start"
    /\ status = 0
    /\ env = [n \in EnvNames |-> NULL]
    /\ heap = [a \in 1..MaxHeap |-> Free]
    /\ sh = NoShell
    /\ tty = [isatty |-> FALSE, modes |-> "cooked"]
    /\ tcset = <<>>
    /\ cwd = "/"

shellVars == <<pc, status, env, heap, sh, tty, tcset, cwd>>

(***************************************************************************)
(* Specification Spec: the shell process and the calls made on it          *)
(***************************************************************************)
Init ==
    /\ call = NoRes
    /\ res = NoRes
    /\ pc = "start"
    /\ status = 0
    /\ env \in [EnvNames -> EnvValues \cup {NULL}]
    /\ heap = [a \in 1..MaxHeap |-> Free]
    /\ sh = NoShell
    /\ tty \in [isatty : BOOLEAN, modes : Modes]
    /\ tcset = <<>>
    /\ cwd \in Dirs

\* setenv(name, value, true), as the tests call it
SetEnv ==
    /\ pc # "exited"
    /\ \E n \in EnvNames : \E v \in EnvValues :
          /\ env[n] # v
          /\ env' = [env EXCEPT ![n] = v]
    /\ UNCHANGED <<call, res, pc, status, heap, sh, tty, tcset, cwd>>

\* unsetenv(name), as the tests call it
UnsetEnv ==
    /\ pc # "exited"
    /\ \E n \in EnvNames :
          /\ env[n] # NULL
          /\ env' = [env EXCEPT ![n] = NULL]
    /\ UNCHANGED <<call, res, pc, status, heap, sh, tty, tcset, cwd>>

\* A caller's get_prompt(name); the call record keeps the environment and
\* the heap of the moment of the call.  The caller holds one prompt at a
\* time and frees it (FreePrompt) before its next call of another function.
GetPrompt ==
    /\ pc # "exited"
    /\ res.op # "get_prompt"
    /\ \E name \in EnvNames \cup {NULL} : \E oom \in BOOLEAN :
          LET g == get_prompt(name, heap, env, oom) IN
          /\ call' = [op |-> "get_prompt", name |-> name, environ |-> env,
                      before |-> heap]
          /\ res'  = [op |-> "get_prompt", ret |-> g.ptr,
                      allocFailed |-> malloc(heap, oom) = 0]
          /\ heap' = g.heap
    /\ UNCHANGED <<pc, status, env, sh, tty, tcset, cwd>>

\* The caller's free(prompt) of what get_prompt returned
FreePrompt ==
    /\ pc # "exited"
    /\ res.op = "get_prompt"
    /\ heap' = free(heap, res.ret)
    /\ call' = NoRes
    /\ res' = NoRes
    /\ UNCHANGED <<pc, status, env, sh, tty, tcset, cwd>>

ShInit ==
    /\ pc = "start"
    /\ res.op # "get_prompt"
    /\ \E fail \in {"none", "setpgid", "tcsetpgrp", "tcgetattr"} :
       \E oom \in BOOLEAN :
          LET r == sh_init(sh, tty, heap, env, fail, oom) IN
          /\ call' = [op |-> "sh_init", environ |-> env]
          /\ res'  = [op |-> "sh_init", exited |-> r.exited,
                      allocFailed |-> malloc(heap, oom) = 0,
                      stderr |-> r.stderr]
          /\ sh' = r.sh
          /\ heap' = r.heap
          /\ pc' = IF r.exited THEN "exited" ELSE "running"
          /\ status' = r.status
    /\ UNCHANGED <<env, tty, tcset, cwd>>

PwEntries ==
    {[found |-> FALSE, pw_dir |-> NULL], [found |-> TRUE, pw_dir |-> NULL]}
    \cup {[found |-> TRUE, pw_dir |-> p] : p \in Paths}

\* The passwd entries worth telling apart for an argument list: the entry
\* is only looked up when cd has no argument
PwFor(argv) ==
    IF argv = <<"cd">> THEN PwEntries
    ELSE {[found |-> TRUE, pw_dir |-> "/home/u"]}

\* A caller's change_dir(argv) on an argument list with a command name
ChangeDir ==
    /\ pc # "exited"
    /\ res.op # "get_prompt"
    /\ \E argv \in {<<"cd">>} \cup {<<"cd", p>> : p \in Paths} :
       \E pw \in PwFor(argv) :
          LET c == change_dir(argv, cwd, pw) IN
          /\ call' = [op |-> "change_dir", argv |-> argv, pw |-> pw,
                      cwd |-> cwd]
          /\ res'  = [op |-> "change_dir", ret |-> c.ret,
                      stderr |-> c.stderr]
          /\ cwd' = c.cwd
    /\ UNCHANGED <<pc, status, env, heap, sh, tty, tcset>>

Commands ==
    {<<>>, <<"exit">>, <<"cd">>, <<"history">>, <<"ls">>, <<"jobs">>}
    \cup {<<"cd", p>> : p \in Paths}

\* The shell's do_builtin(&sh, argv) once sh_init has returned
DoBuiltin ==
    /\ pc = "running"
    /\ res.op # "get_prompt"
    /\ \E argvNull \in BOOLEAN :
       \E argv \in IF argvNull THEN {<<>>} ELSE Commands :
       \E pw \in PwFor(argv) :
       \E hist \in IF argv = <<"history">> THEN {<<>>, <<"1: ls">>}
                  ELSE {<<>>} :
       \E tcok \in IF argv = <<"exit">> /\ sh.shell_is_interactive
                  THEN BOOLEAN ELSE {TRUE} :
          LET r == do_builtin(sh, argvNull, argv, tty, heap, tcset, cwd,
                              pw, hist, tcok) IN
          /\ call' = [op |-> "do_builtin", argvNull |-> argvNull,
                      argv |-> argv, pw |-> pw, cwd |-> cwd]
          /\ res'  = [op |-> "do_builtin", ret |-> r.ret,
                      exited |-> r.exited, stdout |-> r.stdout]
          /\ heap' = r.heap
          /\ tty' = r.tty
          /\ tcset' = r.tcset
          /\ cwd' = r.cwd
          /\ pc' = IF r.exited THEN "exited" ELSE "running"
          /\ status' = r.status
    /\ UNCHANGED <<env, sh>>

Next ==
    \/ SetEnv
    \/ UnsetEnv
    \/ GetPrompt
    \/ FreePrompt
    \/ ShInit
    \/ ChangeDir
    \/ DoBuiltin

Spec == Init /\ [][Next]_vars

(***************************************************************************)
(* Specification SpecParse: cmd_parse applied to every bounded line        *)
(***************************************************************************)
\* The positions of line where a maximal run of non-space characters starts
RunStarts(line) ==
    {i \in 1..Len(line) : line[i] # " " /\ (i = 1 \/ line[i - 1] = " ")}

\* The calls examined. Only the distinguishable ones: an allocation number
\* that the call never reaches, or an outcome of an overflow that never
\* happens, is left out
InitParse ==
    /\ \/ call = [op |-> "cmd_parse", line |-> NullPtr, arg_max |-> ArgMax,
                  failAt |-> 0, ub |-> "silent"]
       \/ \E l \in ParseLines :
          \E f \in 0..(2 + Cardinality(RunStarts(l))) :
          \E u \in IF Cardinality(RunStarts(l)) > ArgMax
                   THEN {"silent", "crash"} ELSE {"silent"} :
              call = [op |-> "cmd_parse", line |-> StrPtr(l),
                      arg_max |-> ArgMax, failAt |-> f, ub |-> u]
    /\ res = NoRes
    /\ IdleShell

CmdParse ==
    /\ call.op = "cmd_parse"
    /\ res = NoRes
    /\ res' = cmd_parse(call.line, call.arg_max, call.failAt, call.ub)
    /\ UNCHANGED <<call, shellVars>>

NextParse == CmdParse

SpecParse == InitParse /\ [][NextParse]_vars


(***************************************************************************)
(* Specification SpecTrim: trim_white applied to every bounded buffer      *)
(***************************************************************************)
TrimChars == {" ", "\t", "\n", "a", "b"}

\* The buffers examined hold a string and its NUL, and then either nothing
\* or one more char left over from an earlier use
InitTrim ==
    /\ \/ call = [op |-> "trim_white", line |-> NULL, buf |-> <<NUL>>]
       \/ \E s \in SeqsUpTo(TrimChars, MaxTrim) :
          \E pad \in {<<>>, <<"a">>} :
              call = [op |-> "trim_white", line |-> "line",
                      buf |-> s \o <<NUL>> \o pad]
    /\ res = NoRes
    /\ IdleShell

TrimWhite ==
    /\ call.op = "trim_white"
    /\ res = NoRes
    /\ res' = trim_white(call.line, call.buf)
    /\ UNCHANGED <<call, shellVars>>

NextTrim == TrimWhite

SpecTrim == InitTrim /\ [][NextTrim]_vars

(***************************************************************************)
(* Specification SpecArgs: parse_args applied to every bounded argv        *)
(***************************************************************************)
ArgWords == {<<"-", "v">>, <<"-", "x">>, <<"-", "v", "x">>,
             <<"-", "x", "v">>, <<"-", "-">>, <<"-">>, <<"f">>}

InitArgs ==
    /\ \E rest \in SeqsUpTo(ArgWords, MaxArgc) : \E posix \in BOOLEAN :
          call = [op |-> "parse_args", argv |-> <<<<"l", "a", "b">>>> \o rest,
                  posix |-> posix]
    /\ res = NoRes
    /\ IdleShell

ParseArgs ==
    /\ call.op = "parse_args"
    /\ res = NoRes
    /\ res' = parse_args(call.argv, call.posix)
    /\ UNCHANGED <<call, shellVars>>

NextArgs == ParseArgs

SpecArgs == InitArgs /\ [][NextArgs]_vars

(***************************************************************************)
(* Properties of cmd_parse (SpecParse)                                     *)
(***************************************************************************)
\* The reference tokenizer: the maximal runs of non-space characters of
\* line, left to right
RunEnd(line, i) ==
    CHOOSE j \in i..Len(line) :
        /\ \A k \in i..j : line[k] # " "
        /\ j = Len(line) \/ line[j + 1] = " "

RefTokens(line) ==
    LET starts == RunStarts(line)
        nth(k) == CHOOSE i \in starts :
                      Cardinality({j \in starts : j < i}) = k - 1
    IN  [k \in 1..Cardinality(starts) |->
            SubSeq(line, nth(k), RunEnd(line, nth(k)))]

ParseDone == res.op = "cmd_parse" /\ call.line # NullPtr

\* The returned array holds exactly the tokens toks and then NULL
ReturnsTokens(toks) ==
    /\ ~res.crashed
    /\ res.ret = "args"
    /\ Len(toks) \in DOMAIN res.args
    /\ \A k \in 1..Len(toks) : res.args[k - 1] = StrPtr(toks[k])
    /\ res.args[Len(toks)] = NullPtr

ReturnsNull == ~res.crashed /\ res.ret = NULL

\* C1 as stated, taken where every allocation succeeds: a line with a
\* non-space character yields exactly its maximal runs of non-space
\* characters followed by NULL, and an empty or all-space line yields NULL.
C1_Original ==
    (ParseDone /\ call.failAt = 0) =>
        LET toks == RefTokens(call.line.s) IN
        IF Len(toks) > 0 THEN ReturnsTokens(toks) ELSE ReturnsNull

\* C1 amended: when every allocation succeeds and the line has fewer than
\* arg_max - 1 tokens, cmd_parse returns exactly the maximal runs of
\* non-space characters, in order, followed by NULL; an empty or all-space
\* line yields NULL; a line with arg_max - 1 or arg_max tokens yields NULL.
C1_Tokenizes ==
    ParseDone =>
        LET toks == RefTokens(call.line.s) IN
        /\ (Len(toks) = 0) => ReturnsNull
        /\ (Len(toks) \in 1..(call.arg_max - 2) /\ call.failAt = 0)
              => ReturnsTokens(toks)
        /\ (Len(toks) \in {call.arg_max - 1, call.arg_max}) => ReturnsNull

\* A line with doubled spaces and a '>' token was parsed into two tokens
C1_Witness ==
    /\ ParseDone /\ call.failAt = 0
    /\ call.line.s = <<" ", "a", " ", " ", ">", "a", " ">>
    /\ res.ret = "args"
    /\ res.args[0] = StrPtr(<<"a">>) /\ res.args[1] = StrPtr(<<">", "a">>)
    /\ res.args[2] = NullPtr

\* C7 (cmd_parse part): a call in which an allocation failed reports on
\* standard error and returns NULL, never a non-NULL argument array.
C7_AllocFailureIsNull ==
    (ParseDone /\ call.failAt # 0) =>
        /\ res.ret = NULL
        /\ res.stderr # <<>>

\* C10: no store of cmd_parse falls outside 0..arg_max-1, and a line with
\* too many tokens yields NULL with every token copy, the array and the line
\* copy freed.
C10_BoundedStores ==
    (ParseDone /\ call.failAt = 0) =>
        /\ res.oob = {}
        /\ ~res.crashed
        /\ Cardinality(RunStarts(call.line.s)) >= call.arg_max - 1 =>
             /\ res.ret = NULL
             /\ res.freedTokens = 0..(res.position - 1)
             /\ res.freedArgs /\ res.freedInput


(***************************************************************************)
(* Properties of trim_white (SpecTrim)                                     *)
(***************************************************************************)
Whitespace == {" ", "\t", "\n", "\r", "\f", VT}

\* The reference trim: s from its first to its last non-whitespace char
RefTrim(s) ==
    LET keep == {i \in 1..Len(s) : s[i] \notin Whitespace} IN
    IF keep = {} THEN <<>>
    ELSE SubSeq(s, CHOOSE i \in keep : \A j \in keep : i <= j,
                   CHOOSE i \in keep : \A j \in keep : j <= i)

\* The string the caller handed over: the cells before the first NUL
Given(buf) ==
    SubSeq(buf, 1, (CHOOSE i \in 1..Len(buf) :
                       buf[i] = NUL /\ \A j \in 1..(i - 1) : buf[j] # NUL) - 1)

TrimDone == res.op = "trim_white" /\ call.line # NULL

\* C2: trim_white returns the pointer it was given and the buffer then holds
\* the original string without its leading and trailing whitespace, the
\* interior unchanged; an all-whitespace string becomes the empty string.
C2_Trims ==
    TrimDone =>
        /\ res.ret = call.line
        /\ Len(res.buf) = Len(call.buf)
        /\ \E i \in 1..Len(res.buf) : res.buf[i] = NUL
        /\ CString(res.buf, 0) = RefTrim(Given(call.buf))

\* A string with whitespace of three kinds on both sides and inside was
\* trimmed to its interior
C2_Witness ==
    /\ TrimDone
    /\ Given(call.buf) = <<"\t", "a", " ", "b", "\n">>
    /\ CString(res.buf, 0) = <<"a", " ", "b">>


(***************************************************************************)
(* Properties of parse_args (SpecArgs)                                     *)
(***************************************************************************)
IsOptionWord(a) == Len(a) >= 2 /\ a[1] = "-" /\ a # <<"-", "-">>

\* The positions of the options a left-to-right scan of argv comes to:
\* option words with no "--" before them and, when the scan stops at the
\* first operand, no operand before them
Encountered(argv, posix) ==
    {i \in 2..Len(argv) :
        /\ IsOptionWord(argv[i])
        /\ \A j \in 2..(i - 1) :
              /\ argv[j] # <<"-", "-">>
              /\ posix => IsOptionWord(argv[j])}

ArgsDone == res.op = "parse_args"

\* C9: the process prints the version and exits 0 when the first option
\* encountered is -v, exits 1 when it is an unknown flag, and parse_args
\* returns without exiting when the command line holds no options.
C9_LaunchOptions ==
    ArgsDone =>
        LET found == Encountered(call.argv, call.posix) IN
        IF found = {}
        THEN ~res.exited
        ELSE LET first == CHOOSE i \in found : \A j \in found : i <= j IN
             IF call.argv[first][2] = "v"
             THEN res.exited /\ res.status = 0
                  /\ res.stdout = <<"Shell Version">>
             ELSE res.exited /\ res.status = 1

\* An unknown flag came first, after an operand, with -v behind it
C9_Witness ==
    /\ ArgsDone
    /\ call.argv = <<<<"l", "a", "b">>, <<"f">>, <<"-", "x">>, <<"-", "v">>>>
    /\ ~call.posix
    /\ res.exited /\ res.status = 1


(***************************************************************************)
(* Properties of the shell process (Spec)                                  *)
(***************************************************************************)
\* The prompt that the variable `name` gives in environment e
PromptOf(e, name) ==
    IF name \in DOMAIN e /\ e[name] # NULL THEN e[name] ELSE "shell>"

\* p points at a live heap block that holds s
HoldsCopy(p, s) == p.k = "heap" /\ heap[p.a].live /\ heap[p.a].s = s

PromptDone == res.op = "get_prompt"

\* C3 as stated: get_prompt returns a freshly allocated string equal to the
\* variable's value when it is set and to "shell>" when it is not set or env
\* is NULL, and a later change of the environment does not alter the string.
C3_Original ==
    PromptDone =>
        /\ HoldsCopy(res.ret, PromptOf(call.environ, call.name))
        /\ ~call.before[res.ret.a].live

\* C3 amended: get_prompt returns NULL when the copy cannot be allocated,
\* and otherwise a freshly allocated string, distinct from the shell's own
\* prompt, that holds the value the variable had at the call (or "shell>"),
\* whatever the environment is changed to afterwards.
C3_PromptCopy ==
    PromptDone =>
        IF res.allocFailed THEN res.ret = NullAddr
        ELSE /\ HoldsCopy(res.ret, PromptOf(call.environ, call.name))
             /\ ~call.before[res.ret.a].live
             /\ res.ret # sh.prompt

\* A prompt read from MY_PROMPT is still "foo>" after the variable was
\* changed to another value
C3_Witness ==
    /\ PromptDone
    /\ call.name = "MY_PROMPT"
    /\ call.environ["MY_PROMPT"] = "foo>"
    /\ env["MY_PROMPT"] = "bar>"
    /\ HoldsCopy(res.ret, "foo>")

\* C4, taken where the allocation succeeds: after sh_init returns, sh->prompt
\* is a non-null string equal to the value of MY_PROMPT when it is set and to
\* "shell>" when it is not.
C4_PromptFromMyPrompt ==
    (res.op = "sh_init" /\ ~res.exited /\ ~res.allocFailed) =>
        HoldsCopy(sh.prompt, PromptOf(call.environ, "MY_PROMPT"))

ChangeDirDone == res.op = "change_dir"

\* C5 as stated: with no argument the working directory becomes the user's
\* home directory and 0 is returned; an existing directory is entered and 0
\* returned; a path that does not exist gives -1 and leaves the working
\* directory as it was.
C5_Original ==
    ChangeDirDone =>
        IF Len(call.argv) = 1
        THEN res.ret = 0 /\ cwd = call.pw.pw_dir
        ELSE IF call.argv[2] \in Dirs
        THEN res.ret = 0 /\ cwd = call.argv[2]
        ELSE res.ret = -1 /\ cwd = call.cwd

\* C5 amended: with no argument change_dir enters the home directory of the
\* user's passwd entry and returns 0 when that entry exists and names an
\* existing directory, and otherwise returns -1 with the working directory
\* unchanged; with an argument it is as stated.
C5_ChangeDir ==
    ChangeDirDone =>
        IF Len(call.argv) = 1
        THEN IF call.pw.found /\ call.pw.pw_dir \in Dirs
             THEN res.ret = 0 /\ cwd = call.pw.pw_dir
             ELSE res.ret = -1 /\ cwd = call.cwd
        ELSE IF call.argv[2] \in Dirs
        THEN res.ret = 0 /\ cwd = call.argv[2]
        ELSE res.ret = -1 /\ cwd = call.cwd

\* cd to a path that does not exist failed and left the shell in /home/u
C5_Witness ==
    /\ ChangeDirDone
    /\ call.argv = <<"cd", "/thisdoesnotexist">>
    /\ call.cwd = "/home/u"
    /\ res.ret = -1 /\ cwd = "/home/u"

\* C6: for a non-NULL argv[0], do_builtin handles cd and history and returns
\* true whatever the outcome of the command, exit ends the process, and any
\* other command name makes it return false.
C6_BuiltinClassified ==
    (res.op = "do_builtin" /\ ~call.argvNull /\ Len(call.argv) >= 1) =>
        IF call.argv[1] = "exit" THEN res.exited
        ELSE IF call.argv[1] \in {"cd", "history"}
        THEN ~res.exited /\ res.ret
        ELSE ~res.exited /\ ~res.ret

\* Every tcsetattr call was made by an interactive shell with a snapshot
\* that sh_init had saved
RestoreOnlySaved ==
    tcset # <<>> =>
        /\ sh.shell_is_interactive
        /\ \A i \in 1..Len(tcset) :
              tcset[i] \in Modes /\ tcset[i] = sh.shell_tmodes

\* C8 as stated: whenever sh_init found the shell interactive, the snapshot
\* sh_init saved has been restored with tcsetattr on every exit of the
\* process, the failure exits of sh_init included, and a restore is only
\* attempted with a saved snapshot.
C8_Original ==
    /\ (pc = "exited" /\ sh.shell_is_interactive) =>
          tcset # <<>> /\ tcset[Len(tcset)] = sh.shell_tmodes
    /\ RestoreOnlySaved

\* C8 amended: when sh_init returned with the shell interactive, the exit
\* built-in restores the snapshot sh_init saved before the process exits;
\* the failure exits of sh_init come before any snapshot is saved and
\* restore nothing; a restore is only attempted with a saved snapshot.
C8_RestoreOnExit ==
    /\ (pc = "exited" /\ res.op = "do_builtin" /\ sh.shell_is_interactive)
          => tcset = <<sh.shell_tmodes>>
    /\ (pc = "exited" /\ res.op = "sh_init") =>
          tcset = <<>> /\ sh.shell_tmodes = "uninit"
    /\ RestoreOnlySaved

\* An interactive shell was left through the exit built-in and its raw-mode
\* snapshot was handed to tcsetattr
C8_Witness ==
    /\ pc = "exited" /\ status = 0
    /\ res.op = "do_builtin" /\ call.argv = <<"exit">>
    /\ sh.shell_is_interactive
    /\ tcset = <<"raw">>

=============================================================================
